---- MODULE Spec2Model ----
(***************************************************************************)
(* Receipt ingestion pipeline of plan_b_customs: the client-side upload    *)
(* orchestrator and completion assembler of                                *)
(* src/components/ReceiptUpload.tsx, with the page that mounts it          *)
(* (src/app/page.tsx) and the upload entry point (src/unnamed/part_003)    *)
(* that turns an index into a remote key.                                  *)
(*                                                                         *)
(* One action is one synchronous block of a handler: from the event (or    *)
(* the resumption of an await) up to the next await that waits for I/O.    *)
(* React state is the value after every queued updater has been applied.   *)
(***************************************************************************)
EXTENDS Integers, Sequences, FiniteSets

\* ------------------------------------------------------------------ bounds
\* valid files selected in one session, over all calls of handleFiles
MaxFiles == 2
\* clicks on remove / remove-all / complete in one session
MaxClicks == 1

\* ------------------------------------------------------------------ props
\* page.tsx passes invoiceName and userName; userEmail is never passed.
Undefined == <<>>
invoiceName == <<"Kim_20250110">>
userName == <<"Kim">>
userEmail == Undefined

\* JavaScript's a || b on values whose only falsy form is undefined / ''.
Or(a, b) == IF a # Undefined THEN a ELSE b

VARIABLES
  files,            \* useState<FileUploadState[]>: the batch
  events,           \* one record per call of handleFiles (its closure and loop position)
  admitted,         \* every file handleFiles appended to the batch, in order
  uploadReqs,       \* requests sent to /api/upload, in order
  deleteReqs,       \* requests sent to /api/upload/delete, in order
  pendingRemoves,   \* handleRemove calls waiting for their delete request
  pendingRemoveAll, \* handleRemoveAll calls waiting, with the number of open requests
  webhookReqs,      \* payloads sent to MAKE_WEBHOOK_URL, in order
  webhookPending,   \* completion clicks waiting for the webhook's response
  alerts,           \* messages shown with alert(), in order
  showToast,        \* useState(false): the thank-you toast
  mounted,          \* the page shows ReceiptUpload (showUpload)
  clicks,           \* number of button clicks so far
  lastOp,           \* the handler block that ran last
  rejected,         \* files validateFile refused, with their message, in order
  arg,              \* input of the function under study (function specifications)
  ret,              \* what the function has produced so far
  env,              \* process.env of the server: which credentials are set
  store,            \* public ids of the objects held by the storage service
  srvLog            \* requests the entry points answered, with their responses

vars == <<files, events, admitted, uploadReqs, deleteReqs, pendingRemoves,
          pendingRemoveAll, webhookReqs, webhookPending, alerts, showToast,
          mounted, clicks, lastOp, rejected, arg, ret, env, store, srvLog>>

\* what the upload component never touches
otherVars == <<arg, ret, env, store, srvLog>>

\* A File object is identified by its rank among the files selected so far.
FileIds == 1..MaxFiles

UploadOutcomes == {"ok_processed", "ok_raw", "network"}
FetchOutcomes == {"ok", "non2xx", "network"}

Op(name, file, outcome) == [op |-> name, file |-> file, outcome |-> outcome]

\* ------------------------------------------------------------ batch state
NoResult == [fileId |-> Undefined, public_id |-> Undefined,
             processed_url |-> Undefined, secure_url |-> Undefined]

NewCandidate(f) == [file |-> f, status |-> "idle", result |-> NoResult, error |-> ""]

\* setState of an unmounted component has no effect.
SetFiles(new) == IF mounted THEN new ELSE files

FileSet(fs) == {fs[k].file : k \in 1..Len(fs)}
Candidate(fs, f) == fs[CHOOSE k \in 1..Len(fs) : fs[k].file = f]

isAllUploadsCompleteNoLength ==
  \A k \in 1..Len(files) : files[k].status \in {"success", "error"}

isAllUploadsComplete ==
  Len(files) > 0 /\ \A k \in 1..Len(files) : files[k].status \in {"success", "error"}

\* ------------------------------------------------------ upload entry point
PublicId(name, fileIndex) == <<"receipts", name, fileIndex>>

UploadResult(fileIndex, outcome) ==
  LET pid == PublicId(invoiceName, fileIndex)
  IN [fileId |-> pid, public_id |-> pid,
      processed_url |-> IF outcome = "ok_processed" THEN <<"processed", pid>> ELSE Undefined,
      secure_url |-> <<"raw", pid>>]

ErrorMessage(outcome) ==
  CASE outcome = "http_message" -> "server message"
    [] outcome = "http_nomessage" -> "upload failed, try again later"
    [] OTHER -> "Failed to fetch"

\* ------------------------------------------------------------- uploadFile
MarkUploadingAllIdle(prev, f) ==
  [k \in 1..Len(prev) |->
    IF prev[k].status = "idle" THEN [prev[k] EXCEPT !.status = "uploading"] ELSE prev[k]]

MarkUploading(prev, f) ==
  [k \in 1..Len(prev) |->
    IF prev[k].file = f THEN [prev[k] EXCEPT !.status = "uploading"] ELSE prev[k]]

Settle(c, fileIndex, outcome) ==
  IF outcome \in {"ok_processed", "ok_raw"}
  THEN [c EXCEPT !.status = "success", !.result = UploadResult(fileIndex, outcome)]
  ELSE [c EXCEPT !.status = "error", !.error = ErrorMessage(outcome)]

MarkSettledByPosition(prev, f, fileIndex, outcome) ==
  [k \in 1..Len(prev) |->
    IF k = fileIndex THEN Settle(prev[k], fileIndex, outcome) ELSE prev[k]]

MarkSettled(prev, f, fileIndex, outcome) ==
  [k \in 1..Len(prev) |->
    IF prev[k].file = f THEN Settle(prev[k], fileIndex, outcome) ELSE prev[k]]

uploadFileRejectsOnError(outcome) == outcome \in {"ok_processed", "ok_raw"}

\* uploadFile catches every error of the request, so its promise always resolves.
uploadFileReturns(outcome) == outcome \in UploadOutcomes

\* ------------------------------------------------------------ handleFiles
\* validateFile: the message of the first rule the file breaks, or null.
validTypes == {"image/jpeg", "image/jpg", "image/png"}
maxSize == 10 * 1024 * 1024
TypeMessage == "only JPEG or PNG image files can be uploaded"
SizeMessage == "file size must be 10MB or less"
null == "null"

validateFileSizeFirst(file) ==
  IF file.size > maxSize THEN SizeMessage
  ELSE IF file.type \notin validTypes THEN TypeMessage
  ELSE null

validateFile(file) ==
  IF file.type \notin validTypes THEN TypeMessage
  ELSE IF file.size > maxSize THEN SizeMessage
  ELSE null

\* Files a user can pick in the upload component: one the validator accepts
\* and one it refuses.
SelectableFiles == {[type |-> "image/jpeg", size |-> maxSize],
                    [type |-> "image/jpeg", size |-> maxSize + 1]}

RejectAlert == "the following files cannot be uploaded"

\* number of files selected so far, over all calls of handleFiles
Selected ==
  Len(rejected) + Cardinality(UNION {{ev.newFiles[k] : k \in 1..Len(ev.newFiles)} :
                                      ev \in {events[e] : e \in 1..Len(events)}})

handleFiles(fileArray) ==
  /\ mounted
  /\ Selected + Len(fileArray) <= MaxFiles
  /\ LET id == [k \in 1..Len(fileArray) |-> Selected + k]
         error(f) == validateFile(fileArray[f - Selected])
         validFiles == SelectSeq(id, LAMBDA f : error(f) = null)
         invalid == SelectSeq(id, LAMBDA f : error(f) # null)
         invalidFiles == [k \in 1..Len(invalid) |->
                           [file |-> invalid[k], error |-> error(invalid[k])]]
     IN /\ rejected' = rejected \o invalidFiles
        /\ alerts' = IF Len(invalidFiles) > 0 THEN Append(alerts, RejectAlert) ELSE alerts
        /\ events' = IF Len(validFiles) = 0 THEN events
                     ELSE Append(events,
                            [phase |-> "preview",
                             existingFileCount |-> Len(files),
                             newFiles |-> validFiles,
                             i |-> 0,
                             failed |-> 0])
  /\ lastOp' = Op("handleFiles", 0, "")
  /\ UNCHANGED otherVars
  /\ UNCHANGED <<files, admitted, uploadReqs, deleteReqs, pendingRemoves,
                 pendingRemoveAll, webhookReqs, webhookPending,
                 showToast, mounted, clicks>>

PreviewsReady(e) ==
  /\ events[e].phase = "preview"
  /\ LET ev == events[e]
         f == ev.newFiles[1]
         appended == files \o [k \in 1..Len(ev.newFiles) |-> NewCandidate(ev.newFiles[k])]
     IN /\ files' = SetFiles(MarkUploading(appended, f))
        /\ admitted' = admitted \o ev.newFiles
        /\ uploadReqs' = Append(uploadReqs,
             [file |-> f, index |-> ev.existingFileCount + ev.i + 1])
        /\ events' = [events EXCEPT ![e].phase = "upload"]
        /\ lastOp' = Op("PreviewsReady", f, "")
  /\ UNCHANGED <<rejected, otherVars>>
  /\ UNCHANGED <<deleteReqs, pendingRemoves, pendingRemoveAll, webhookReqs,
                 webhookPending, alerts, showToast, mounted, clicks>>

\* The processing of file f of the event never ends well: its preview reader
\* fails (reader.onerror = reject) or its orientation read never resolves, so
\* Promise.all never yields newFiles and nothing of the event is appended.
PreviewFailed(e, f) ==
  /\ events[e].phase = "preview"
  /\ f \in {events[e].newFiles[k] : k \in 1..Len(events[e].newFiles)}
  /\ events' = [events EXCEPT ![e].phase = "done", ![e].failed = f]
  /\ lastOp' = Op("PreviewFailed", f, "")
  /\ UNCHANGED <<rejected, otherVars>>
  /\ UNCHANGED <<files, admitted, uploadReqs, deleteReqs, pendingRemoves,
                 pendingRemoveAll, webhookReqs, webhookPending, alerts,
                 showToast, mounted, clicks>>

NextPositionRetrying(i, outcome) == IF outcome = "network" THEN i ELSE i + 1

\* the loop's i++ after each awaited uploadFile, whatever its outcome
NextPosition(i, outcome) == i + 1

UploadSettled(e, outcome) ==
  /\ events[e].phase = "upload"
  /\ LET ev == events[e]
         f == ev.newFiles[ev.i + 1]
         index == ev.existingFileCount + ev.i + 1
         settled == SetFiles(MarkSettled(files, f, index, outcome))
         next == NextPosition(ev.i, outcome)
         more == uploadFileReturns(outcome) /\ next < Len(ev.newFiles)
         g == ev.newFiles[next + 1]
     IN /\ files' = IF more /\ mounted THEN MarkUploading(settled, g) ELSE settled
        /\ uploadReqs' = IF more
             THEN Append(uploadReqs, [file |-> g, index |-> ev.existingFileCount + next + 1])
             ELSE uploadReqs
        /\ events' = [events EXCEPT ![e] =
             IF more THEN [ev EXCEPT !.i = next] ELSE [ev EXCEPT !.phase = "done"]]
        /\ lastOp' = Op("UploadSettled", f, outcome)
  /\ UNCHANGED <<rejected, otherVars>>
  /\ UNCHANGED <<admitted, deleteReqs, pendingRemoves, pendingRemoveAll,
                 webhookReqs, webhookPending, alerts, showToast, mounted, clicks>>

\* ----------------------------------------------------------- handleRemove
RemoveFile(prev, f) == SelectSeq(prev, LAMBDA c : c.file # f)

ShouldDeleteEveryCandidate(c) == TRUE

ShouldDeleteUnlessIdle(c) == c.status # "idle"

\* handleRemove / handleRemoveAll: only an uploaded file with a fileId is deleted remotely.
ShouldDeleteRemote(c) == c.status = "success" /\ c.result.fileId # Undefined

handleRemove(f) ==
  /\ mounted
  /\ clicks < MaxClicks
  /\ f \in FileSet(files)
  /\ Candidate(files, f).status # "uploading"
  /\ clicks' = clicks + 1
  /\ LET fileState == Candidate(files, f)
     IN IF ShouldDeleteRemote(fileState)
        THEN /\ deleteReqs' = Append(deleteReqs, fileState.result.fileId)
             /\ pendingRemoves' = pendingRemoves \cup {<<clicks + 1, f>>}
             /\ files' = files
             /\ lastOp' = Op("handleRemove", f, "await")
        ELSE /\ files' = SetFiles(RemoveFile(files, f))
             /\ lastOp' = Op("handleRemove", f, "removed")
             /\ UNCHANGED <<deleteReqs, pendingRemoves>>
  /\ UNCHANGED <<rejected, otherVars>>
  /\ UNCHANGED <<events, admitted, uploadReqs, pendingRemoveAll, webhookReqs,
                 webhookPending, alerts, showToast, mounted>>

RemoveSettled(p, outcome) ==
  /\ p \in pendingRemoves
  /\ pendingRemoves' = pendingRemoves \ {p}
  /\ files' = SetFiles(RemoveFile(files, p[2]))
  /\ lastOp' = Op("RemoveSettled", p[2], outcome)
  /\ UNCHANGED <<rejected, otherVars>>
  /\ UNCHANGED <<events, admitted, uploadReqs, deleteReqs, pendingRemoveAll,
                 webhookReqs, webhookPending, alerts, showToast, mounted, clicks>>

\* -------------------------------------------------------- handleRemoveAll
handleRemoveAll ==
  /\ mounted
  /\ clicks < MaxClicks
  /\ Len(files) > 0
  /\ clicks' = clicks + 1
  /\ LET successfulFiles == SelectSeq(files, ShouldDeleteRemote)
     IN /\ deleteReqs' = deleteReqs \o
             [k \in 1..Len(successfulFiles) |-> successfulFiles[k].result.fileId]
        /\ IF Len(successfulFiles) = 0
           THEN /\ files' = SetFiles(<<>>)
                /\ lastOp' = Op("handleRemoveAll", 0, "removed")
                /\ UNCHANGED pendingRemoveAll
           ELSE /\ pendingRemoveAll' =
                     pendingRemoveAll \cup {<<clicks + 1, Len(successfulFiles)>>}
                /\ files' = files
                /\ lastOp' = Op("handleRemoveAll", 0, "await")
  /\ UNCHANGED <<rejected, otherVars>>
  /\ UNCHANGED <<events, admitted, uploadReqs, pendingRemoves, webhookReqs,
                 webhookPending, alerts, showToast, mounted>>

RemoveAllDeleteSettled(p, outcome) ==
  /\ p \in pendingRemoveAll
  /\ IF p[2] = 1
     THEN /\ pendingRemoveAll' = pendingRemoveAll \ {p}
          /\ files' = SetFiles(<<>>)
          /\ lastOp' = Op("RemoveAllSettled", 0, outcome)
     ELSE /\ pendingRemoveAll' = (pendingRemoveAll \ {p}) \cup {<<p[1], p[2] - 1>>}
          /\ files' = files
          /\ lastOp' = Op("RemoveAllDeleteSettled", 0, outcome)
  /\ UNCHANGED <<rejected, otherVars>>
  /\ UNCHANGED <<events, admitted, uploadReqs, deleteReqs, pendingRemoves,
                 webhookReqs, webhookPending, alerts, showToast, mounted, clicks>>

\* ------------------------------------------------------ completion button
imageUrlPreferRaw(result) == Or(result.secure_url, Or(result.processed_url, Undefined))

imageUrl(result) == Or(result.processed_url, Or(result.secure_url, Undefined))

CanonicalRecord(c) ==
  [public_id |-> Or(c.result.public_id, c.result.fileId),
   asset_folder |-> Or(invoiceName, Undefined),
   secure_url |-> imageUrl(c.result),
   processed_url |-> c.result.processed_url]

successfulFilesUnfiltered(fs) == [k \in 1..Len(fs) |-> CanonicalRecord(fs[k])]

successfulFiles(fs) ==
  LET ok == SelectSeq(fs, LAMBDA c : c.status = "success" /\ c.result # NoResult)
  IN [k \in 1..Len(ok) |-> CanonicalRecord(ok[k])]

webhookUser ==
  [name |-> Or(userName, <<"">>), email |-> Or(userEmail, <<"">>),
   invoiceName |-> Or(invoiceName, <<"">>)]

NoReceiptsAlert == "no uploaded receipts, upload and retry"

\* the handler; limit bounds the clicks of the run
CompleteClick(limit) ==
  /\ mounted
  /\ clicks < limit
  /\ isAllUploadsComplete
  /\ clicks' = clicks + 1
  /\ lastOp' = Op("complete", 0, "")
  /\ IF Len(successfulFiles(files)) = 0
     THEN /\ alerts' = Append(alerts, NoReceiptsAlert)
          /\ UNCHANGED <<webhookReqs, webhookPending>>
     ELSE /\ webhookReqs' = Append(webhookReqs,
               [files |-> successfulFiles(files), user |-> webhookUser])
          /\ webhookPending' = webhookPending \cup {clicks + 1}
          /\ UNCHANGED alerts
  /\ UNCHANGED <<rejected, otherVars>>
  /\ UNCHANGED <<files, events, admitted, uploadReqs, deleteReqs, pendingRemoves,
                 pendingRemoveAll, showToast, mounted>>

completeOnClick == CompleteClick(MaxClicks)

WebhookOkUnlessNetwork(outcome) == outcome # "network"

\* fetch resolved and response.ok
WebhookOk(outcome) == outcome = "ok"

WebhookAlert(outcome) ==
  IF outcome = "non2xx" THEN "webhook call failed" ELSE "Failed to fetch"

WebhookSettled(p, outcome) ==
  /\ p \in webhookPending
  /\ webhookPending' = webhookPending \ {p}
  /\ lastOp' = Op("WebhookSettled", 0, outcome)
  /\ IF WebhookOk(outcome)
     THEN /\ showToast' = (IF mounted THEN TRUE ELSE showToast)
          /\ UNCHANGED alerts
     ELSE /\ alerts' = Append(alerts, WebhookAlert(outcome))
          /\ UNCHANGED showToast
  /\ UNCHANGED <<rejected, otherVars>>
  /\ UNCHANGED <<files, events, admitted, uploadReqs, deleteReqs, pendingRemoves,
                 pendingRemoveAll, webhookReqs, mounted, clicks>>

\* ------------------------------------------------------- leaving the page
\* Toast's timers call onClose: setShowToast(false) and onComplete(), which
\* makes the page drop ReceiptUpload and with it the batch.
ToastClose ==
  /\ mounted
  /\ showToast
  /\ showToast' = FALSE
  /\ mounted' = FALSE
  /\ files' = <<>>
  /\ lastOp' = Op("ToastClose", 0, "")
  /\ UNCHANGED <<rejected, otherVars>>
  /\ UNCHANGED <<events, admitted, uploadReqs, deleteReqs, pendingRemoves,
                 pendingRemoveAll, webhookReqs, webhookPending, alerts, clicks>>

\* the page's back button
handleUploadCancel ==
  /\ mounted
  /\ mounted' = FALSE
  /\ showToast' = FALSE
  /\ files' = <<>>
  /\ lastOp' = Op("handleUploadCancel", 0, "")
  /\ UNCHANGED <<rejected, otherVars>>
  /\ UNCHANGED <<events, admitted, uploadReqs, deleteReqs, pendingRemoves,
                 pendingRemoveAll, webhookReqs, webhookPending, alerts, clicks>>

componentVars == <<files, events, admitted, uploadReqs, deleteReqs, pendingRemoves,
                   pendingRemoveAll, webhookReqs, webhookPending, alerts, showToast,
                   mounted, clicks, lastOp, rejected>>

InitComponent ==
  /\ files = <<>>
  /\ events = <<>>
  /\ admitted = <<>>
  /\ uploadReqs = <<>>
  /\ deleteReqs = <<>>
  /\ pendingRemoves = {}
  /\ pendingRemoveAll = {}
  /\ webhookReqs = <<>>
  /\ webhookPending = {}
  /\ alerts = <<>>
  /\ showToast = FALSE
  /\ mounted = TRUE
  /\ clicks = 0
  /\ lastOp = Op("mount", 0, "")
  /\ rejected = <<>>

\* no function under study, no request at the server
InitFunction == arg = Undefined /\ ret = Undefined
InitServer == env = Undefined /\ store = {} /\ srvLog = <<>>

Init == InitComponent /\ InitFunction /\ InitServer

Next ==
  \/ \E n \in 1..MaxFiles : \E fileArray \in [1..n -> SelectableFiles] : handleFiles(fileArray)
  \/ \E e \in 1..Len(events) : PreviewsReady(e)
  \/ \E e \in 1..Len(events), f \in FileIds : PreviewFailed(e, f)
  \/ \E e \in 1..Len(events), o \in UploadOutcomes : UploadSettled(e, o)
  \/ \E f \in FileIds : handleRemove(f)
  \/ \E p \in pendingRemoves, o \in FetchOutcomes : RemoveSettled(p, o)
  \/ handleRemoveAll
  \/ \E p \in pendingRemoveAll, o \in FetchOutcomes : RemoveAllDeleteSettled(p, o)
  \/ completeOnClick
  \/ \E p \in webhookPending, o \in FetchOutcomes : WebhookSettled(p, o)
  \/ ToastClose
  \/ handleUploadCancel

Spec == Init /\ [][Next]_vars

\* The await of each upload request ends: the request returns with a result,
\* a non-2xx response or a network error.
UploadReturns(e) ==
  e <= Len(events) /\ \E o \in UploadOutcomes : UploadSettled(e, o)

FairSpec == Spec /\ \A e \in 1..MaxFiles : WF_vars(UploadReturns(e))

\* ------------------------------------------------------------------ claims
Terminal == {"success", "error"}
Range(s) == {s[k] : k \in 1..Len(s)}
Position(s, x) == CHOOSE k \in 1..Len(s) : s[k] = x
InBatch(f) == f \in FileSet(files)
ClickOf(name) == lastOp'.op = name /\ clicks' = clicks + 1

\* number of success candidates among the first k of the batch
SuccessRank(k) == Cardinality({m \in 1..k : files[m].status = "success"})

\* the step takes f out of the batch and keeps every other candidate, in order
RemovedOnly(f) ==
  /\ f \notin FileSet(files')
  /\ Len(files') = Cardinality(FileSet(files) \ {f})
  /\ \A k \in 1..Len(files) :
       files[k].file # f =>
         files'[k - Cardinality({j \in 1..k : files[j].file = f})] = files[k]

\* C1: the index sent with a file's upload request is the file's rank in
\* admission order, so the indices are 1, 2, ..., N without gap or repeat.
C1_IndexIsAdmissionRank ==
  \A k \in 1..Len(uploadReqs) :
    uploadReqs[k].index = Position(admitted, uploadReqs[k].file)

\* C2: no two upload requests of a session carry the same index, so no two
\* uploads target the same remote key receipts/<collection>_<index>.
C2_NoTwoRequestsShareIndex ==
  \A j, k \in 1..Len(uploadReqs) :
    j # k => PublicId(invoiceName, uploadReqs[j].index)
               # PublicId(invoiceName, uploadReqs[k].index)

\* C3: a candidate's status moves only idle -> uploading -> success | error;
\* a candidate that is success or error keeps its status, result and error
\* for as long as it is in the batch, and a new candidate is never terminal.
C3_StatusOnlyMovesForward ==
  [][/\ \A k \in 1..Len(files) :
          LET c == files[k] IN
          c.file \in FileSet(files') =>
            LET d == Candidate(files', c.file) IN
            /\ c.status = "idle" => d.status \in {"idle", "uploading"}
            /\ c.status = "uploading" => d.status \in {"uploading", "success", "error"}
            /\ c.status \in Terminal => d = c
     /\ \A k \in 1..Len(files') :
          files'[k].file \notin FileSet(files) => files'[k].status \notin Terminal
    ]_vars

C3_Witness ==
  \E k \in 1..Len(files) :
    /\ files[k].status = "success"
    /\ lastOp.op = "UploadSettled"
    /\ lastOp.file # files[k].file

\* C4: of the files of one admission event at most one is uploading at any
\* time, a file is started only once its predecessor's request has settled,
\* and the requests of the event are sent in the order of the event's files.
C4_OneInFlightPerEvent ==
  \A e \in 1..Len(events) :
    LET nf == events[e].newFiles IN
    /\ Cardinality({k \in 1..Len(files) :
          files[k].file \in Range(nf) /\ files[k].status = "uploading"}) <= 1
    /\ \A j \in 1..(Len(nf) - 1) :
          /\ (InBatch(nf[j + 1]) /\ Candidate(files, nf[j + 1]).status # "idle")
               => (InBatch(nf[j]) => Candidate(files, nf[j]).status \in Terminal)
          /\ \A r \in 1..Len(uploadReqs) :
               uploadReqs[r].file = nf[j + 1]
                 => \E q \in 1..(r - 1) : uploadReqs[q].file = nf[j]

C4_Witness ==
  \E e \in 1..Len(events) :
    LET nf == events[e].newFiles IN
    /\ Len(nf) >= 2
    /\ InBatch(nf[1]) /\ Candidate(files, nf[1]).status \in Terminal
    /\ InBatch(nf[2]) /\ Candidate(files, nf[2]).status = "uploading"

\* C5: when every upload request returns, every candidate of the batch is
\* eventually success or error, or has left the batch; a failed upload does
\* not keep the later files of its admission event from being uploaded.
C5_EveryCandidateSettles ==
  \A f \in FileIds :
    InBatch(f) ~> (~InBatch(f) \/ Candidate(files, f).status \in Terminal)

C5_Witness ==
  \E e \in 1..Len(events) :
    LET nf == events[e].newFiles IN
    /\ Len(nf) >= 2
    /\ InBatch(nf[1]) /\ Candidate(files, nf[1]).status = "error"
    /\ InBatch(nf[2]) /\ Candidate(files, nf[2]).status \in Terminal

\* C6: the flag isAllUploadsComplete is true exactly when the batch is not
\* empty and holds no idle and no uploading candidate, and the completion
\* button can be clicked only while it is true.
C6_AllSettledFlag ==
  /\ isAllUploadsComplete <=>
       (files # <<>> /\ ~\E k \in 1..Len(files) : files[k].status \in {"idle", "uploading"})
  /\ (ENABLED completeOnClick) =>
       (files # <<>> /\ \A k \in 1..Len(files) : files[k].status \in Terminal)

C6_Witness ==
  /\ isAllUploadsComplete
  /\ \E k \in 1..Len(files) : files[k].status = "error"
  /\ ENABLED completeOnClick

\* C7: a completion click on a batch without a success candidate sends no
\* webhook request, shows the retry alert and leaves the batch as it is.
C7_EmptyCompletionRefused ==
  [][(ClickOf("complete") /\ ~\E k \in 1..Len(files) : files[k].status = "success")
       => /\ webhookReqs' = webhookReqs
          /\ webhookPending' = webhookPending
          /\ files' = files
          /\ alerts' = Append(alerts, NoReceiptsAlert)
    ]_vars

C7_Witness ==
  /\ lastOp.op = "complete"
  /\ Len(files) = 2
  /\ \A k \in 1..Len(files) : files[k].status = "error"
  /\ alerts = <<NoReceiptsAlert>>
  /\ webhookReqs = <<>>

C9_FailedSubmissionChangesNothing ==
  [][(lastOp'.op = "WebhookSettled" /\ lastOp'.outcome # "ok"
        /\ webhookPending' # webhookPending)
       => /\ Len(alerts') = Len(alerts) + 1
          /\ files' = files
          /\ deleteReqs' = deleteReqs
          /\ uploadReqs' = uploadReqs
          /\ webhookReqs' = webhookReqs
          /\ pendingRemoves' = pendingRemoves
          /\ pendingRemoveAll' = pendingRemoveAll
          /\ showToast' = showToast
          /\ mounted' = mounted
          /\ isAllUploadsComplete => isAllUploadsComplete'
    ]_vars

C9_Witness ==
  /\ lastOp.op = "WebhookSettled"
  /\ lastOp.outcome = "non2xx"
  /\ Len(alerts) = 1
  /\ isAllUploadsComplete
  /\ \E k \in 1..Len(files) : files[k].status = "success"

\* C10: a single removal ends with the candidate gone and every other
\* candidate as it was, whatever the delete request's outcome; a click on
\* remove sends a delete request, with the candidate's fileId, exactly when
\* the candidate is success.
C10_RemovalIsLocalAndDeletesOnlyUploaded ==
  [][\A f \in FileIds :
       /\ (ClickOf("handleRemove") /\ lastOp'.file = f) =>
            LET c == Candidate(files, f) IN
            /\ (deleteReqs' # deleteReqs) <=> (c.status = "success")
            /\ c.status = "success" => deleteReqs' = Append(deleteReqs, c.result.fileId)
            /\ c.status # "success" => RemovedOnly(f)
       /\ (lastOp'.op = "RemoveSettled" /\ lastOp'.file = f
             /\ pendingRemoves' # pendingRemoves) =>
            /\ RemovedOnly(f)
            /\ deleteReqs' = deleteReqs
    ]_vars

C10_Witness ==
  /\ lastOp.op = "RemoveSettled"
  /\ lastOp.outcome = "network"
  /\ Len(deleteReqs) = 1
  /\ Len(files) = 1
  /\ mounted

\* s is a run of consecutive elements of t
Contiguous(s, t) ==
  \E d \in 0..Len(t) :
    d + Len(s) <= Len(t) /\ \A k \in 1..Len(s) : t[d + k] = s[k]

\* C11: of an admission event, exactly the files the validator accepts
\* become candidates, in selection order; a refused file has a message and is
\* never admitted or uploaded; and no file of the event keeps another valid
\* file of the event from being admitted, whatever happens while it is
\* processed.
C11_ValidFilesOfAnEventAreAdmitted ==
  /\ \A k \in 1..Len(rejected) :
       /\ rejected[k].error # null
       /\ rejected[k].file \notin Range(admitted)
       /\ \A j \in 1..Len(uploadReqs) : uploadReqs[j].file # rejected[k].file
  /\ \A e \in 1..Len(events) :
       events[e].phase # "preview" =>
         Contiguous(SelectSeq(events[e].newFiles, LAMBDA f : f # events[e].failed),
                    admitted)

\* ================================================================ validator
\* validateFile applied to one File: arg is the file's type and size.
SizeMargin == 3
MimeTypes == {"image/jpeg", "image/jpg", "image/png", "image/gif", "image/webp",
              "application/pdf", ""}
FileSizes == {0, 1, 1024} \cup ((maxSize - SizeMargin)..(maxSize + SizeMargin))

ValidateInit ==
  /\ arg \in [type : MimeTypes, size : FileSizes]
  /\ ret = Undefined
  /\ InitComponent /\ InitServer

Validate ==
  /\ ret = Undefined
  /\ ret' = <<validateFile(arg)>>
  /\ UNCHANGED <<arg, env, store, srvLog, componentVars>>

ValidateNext == Validate

ValidateSpec == ValidateInit /\ [][ValidateNext]_vars

\* C12 as amended: a file is accepted iff its type is one of the three
\* strings image/jpeg, image/jpg, image/png and its size is at most 10 MiB
\* (10 MiB itself is accepted); a file of any other type gets the type message
\* whatever its size, a file of a listed type above 10 MiB the size message.
C12_AcceptsListedTypesUpToMaxSize ==
  ret # Undefined =>
    /\ ret[1] = null <=>
         (arg.type \in {"image/jpeg", "image/jpg", "image/png"} /\ arg.size <= 10485760)
    /\ arg.type \notin {"image/jpeg", "image/jpg", "image/png"} => ret[1] = TypeMessage
    /\ (arg.type \in {"image/jpeg", "image/jpg", "image/png"} /\ arg.size > 10485760)
         => ret[1] = SizeMessage

\* a file of exactly 10 MiB, of the type image/jpg, has been accepted
C12_Witness == ret = <<null>> /\ arg.size = 10485760 /\ arg.type = "image/jpg"

\* C12 as stated: a file is accepted iff its MIME type is one of exactly two
\* types, image/jpeg and image/png, and its size is at most 10 MiB; a type
\* violation gets the type message and a size violation the size message.
C12_AcceptsExactlyTwoTypes ==
  ret # Undefined =>
    /\ ret[1] = null <=> (arg.type \in {"image/jpeg", "image/png"} /\ arg.size <= 10485760)
    /\ arg.type \notin {"image/jpeg", "image/png"} => ret[1] = TypeMessage
    /\ (arg.type \in {"image/jpeg", "image/png"} /\ arg.size > 10485760)
         => ret[1] = SizeMessage

\* ======================================================= orientation reader
\* getImageOrientation on the first bytes of a file. A buffer is a sequence
\* of bytes; offsets are 0-based as in DataView.
Resolved(n) == [resolved |-> TRUE, value |-> n]

\* A DataView read past the end throws RangeError inside reader.onload:
\* neither resolve nor reject is ever called.
Unresolved == [resolved |-> FALSE, value |-> 0]
NotFound == [resolved |-> FALSE, value |-> 1]

InView(buf, offset, n) == offset + n <= Len(buf)

getUint16(buf, offset, littleEndian) ==
  IF littleEndian THEN buf[offset + 2] * 256 + buf[offset + 1]
  ELSE buf[offset + 1] * 256 + buf[offset + 2]

\* getUint32 of an offset field. The value is only added to tiffOffset and
\* used as a read position: 65536 stands for every value of 2^16 or more,
\* all of them past the end of the 64 KiB slice.
getUint32(buf, offset, littleEndian) ==
  LET b == IF littleEndian
           THEN <<buf[offset + 4], buf[offset + 3], buf[offset + 2], buf[offset + 1]>>
           ELSE <<buf[offset + 1], buf[offset + 2], buf[offset + 3], buf[offset + 4]>>
  IN IF b[1] = 0 /\ b[2] = 0 THEN b[3] * 256 + b[4] ELSE 65536

\* view.getUint32(offset, false) === 0x45786966, the string "Exif"
IsExif(buf, offset) ==
  <<buf[offset + 1], buf[offset + 2], buf[offset + 3], buf[offset + 4]>> = <<69, 120, 105, 102>>

RECURSIVE IfdEntries(_, _, _, _, _)
IfdEntries(buf, ifdPointer, numEntries, isLittleEndian, i) ==
  IF ~(i < numEntries) THEN NotFound
  ELSE LET entryOffset == ifdPointer + 2 + i * 12 IN
       IF ~InView(buf, entryOffset, 2) THEN Unresolved
       ELSE IF getUint16(buf, entryOffset, isLittleEndian) = 274      \* 0x0112
       THEN IF ~InView(buf, entryOffset + 8, 2) THEN Unresolved
            ELSE Resolved(getUint16(buf, entryOffset + 8, isLittleEndian))
       ELSE IfdEntries(buf, ifdPointer, numEntries, isLittleEndian, i + 1)

ReadTiff(buf, tiffOffset) ==
  IF ~InView(buf, tiffOffset, 2) THEN Unresolved
  ELSE LET isLittleEndian == getUint16(buf, tiffOffset, FALSE) = 18761 IN   \* 0x4949
       IF ~InView(buf, tiffOffset + 2, 2) THEN Unresolved
       ELSE IF getUint16(buf, tiffOffset + 2, FALSE) # 42                   \* 0x002a
       THEN Resolved(1)
       ELSE IF ~InView(buf, tiffOffset + 4, 4) THEN Unresolved
       ELSE LET ifdOffset == getUint32(buf, tiffOffset + 4, isLittleEndian)
                ifdPointer == tiffOffset + ifdOffset
            IN IF ~InView(buf, ifdPointer, 2) THEN Unresolved
               ELSE IfdEntries(buf, ifdPointer,
                               getUint16(buf, ifdPointer, isLittleEndian),
                               isLittleEndian, 0)

RECURSIVE ScanMarkers(_, _)
ScanMarkers(buf, offset) ==
  IF ~(offset < Len(buf)) THEN Resolved(1)
  ELSE IF ~InView(buf, offset, 2) THEN Unresolved
  ELSE IF getUint16(buf, offset, FALSE) = 65505                             \* 0xffe1
  THEN IF ~InView(buf, offset + 2, 2) THEN Unresolved
       ELSE LET exifLength == getUint16(buf, offset + 2, FALSE) IN
            IF ~InView(buf, offset + 4, 4) THEN Unresolved
            ELSE IF IsExif(buf, offset + 4)
            THEN LET r == ReadTiff(buf, offset + 10) IN
                 IF r = NotFound THEN ScanMarkers(buf, offset + exifLength + 2) ELSE r
            ELSE ScanMarkers(buf, offset + exifLength + 2)
  ELSE ScanMarkers(buf, offset + 2)

\* readOk: the FileReader delivers the slice (onload); otherwise onerror.
getImageOrientation(buf, readOk) ==
  IF ~readOk THEN Resolved(1)
  ELSE IF ~InView(buf, 0, 2) THEN Unresolved
  ELSE IF getUint16(buf, 0, FALSE) # 65496 THEN Resolved(1)                 \* 0xffd8
  ELSE ScanMarkers(buf, 2)

\* ---- the buffers the reader is applied to
\* largest value stored in an Orientation tag
MaxTagValue == 9
\* entries the IFD declares beyond those it holds
MaxExtraEntries == 1

Uint16Bytes(n, littleEndian) ==
  IF littleEndian THEN <<n % 256, n \div 256>> ELSE <<n \div 256, n % 256>>

Uint32Bytes(n, littleEndian) ==
  IF littleEndian THEN Uint16Bytes(n, TRUE) \o <<0, 0>> ELSE <<0, 0>> \o Uint16Bytes(n, FALSE)

\* one 12-byte IFD entry: tag, type SHORT, count 1, value, padding
IfdEntry(tag, value, littleEndian) ==
  Uint16Bytes(tag, littleEndian) \o Uint16Bytes(3, littleEndian)
    \o Uint32Bytes(1, littleEndian) \o Uint16Bytes(value, littleEndian) \o <<0, 0>>

RECURSIVE Concat(_)
Concat(ss) == IF ss = <<>> THEN <<>> ELSE ss[1] \o Concat(Tail(ss))

\* TIFF block: byte order mark, magic 42 and IFD offset 8 in the declared
\* order, then the IFD with the given tags (274 is Orientation, 271 is Make).
Tiff(littleEndian, tags, extra, value) ==
  (IF littleEndian THEN <<73, 73>> ELSE <<77, 77>>)
    \o Uint16Bytes(42, littleEndian) \o Uint32Bytes(8, littleEndian)
    \o Uint16Bytes(Len(tags) + extra, littleEndian)
    \o Concat([k \in 1..Len(tags) |-> IfdEntry(tags[k], value, littleEndian)])

App1(payload) == <<255, 225>> \o Uint16Bytes(Len(payload) + 2, FALSE) \o payload

\* SOI, optional APP0 segment, APP1 "Exif\0\0" with the TIFF block, EOI
Jpeg(app0, littleEndian, tags, extra, value) ==
  <<255, 216>> \o (IF app0 THEN <<255, 224, 0, 4, 0, 0>> ELSE <<>>)
    \o App1(<<69, 120, 105, 102, 0, 0>> \o Tiff(littleEndian, tags, extra, value))
    \o <<255, 217>>

Png == <<137, 80, 78, 71, 13, 10, 26, 10, 0, 0, 0, 13>>

TagLists == {<<>>, <<274>>, <<271>>, <<271, 274>>}

\* whole files; valueEnd is the length up to the value of the Orientation
\* entry (the last entry of the IFD when there is one), 0 without that entry
WholeFiles ==
  {[bytes |-> Png, valueEnd |-> 0, littleEndian |-> FALSE, value |-> 0]} \cup
  {[bytes |-> Jpeg(app0, le, tags, extra, v),
    valueEnd |-> IF 274 \in {tags[k] : k \in 1..Len(tags)}
                 THEN Len(Jpeg(app0, le, tags, extra, v)) - 4 ELSE 0,
    littleEndian |-> le,
    value |-> v] :
     app0 \in BOOLEAN, le \in BOOLEAN, tags \in TagLists,
     extra \in 0..MaxExtraEntries, v \in 0..MaxTagValue}

\* every whole file and every truncation of one, down to the empty buffer;
\* sound says that the buffer is a JPEG whose Exif block holds the tag and
\* the value of an Orientation entry
Buffers ==
  UNION {{[bytes |-> SubSeq(w.bytes, 1, t),
           sound |-> w.valueEnd > 0 /\ t >= w.valueEnd,
           littleEndian |-> w.littleEndian,
           value |-> w.value] : t \in 0..Len(w.bytes)} : w \in WholeFiles}

ReaderInit ==
  /\ arg \in {[buffer |-> b, readOk |-> ok] : b \in Buffers, ok \in BOOLEAN}
  /\ ret = Undefined
  /\ InitComponent /\ InitServer

ReadOrientation ==
  /\ ret = Undefined
  /\ ret' = <<getImageOrientation(arg.buffer.bytes, arg.readOk)>>
  /\ UNCHANGED <<arg, env, store, srvLog, componentVars>>

ReaderNext == ReadOrientation

ReaderSpec == ReaderInit /\ [][ReaderNext]_vars

\* C13: for every buffer that is not a JPEG holding an Orientation entry (not
\* a JPEG, empty, one byte, odd length, truncated before the entry's value,
\* no entry) the read completes, and it completes with 1.
C13_MalformedBufferReadsAsOne ==
  (ret # Undefined /\ ~arg.buffer.sound) => ret[1] = Resolved(1)

\* ================================================================ corrector
\* An image is a grid of pixels, px[<<x, y>>] with x to the right and y down;
\* a File is an object (its identity) with the image its bytes encode.
Pixels(width, height) == (0..(width - 1)) \X (0..(height - 1))

\* the image as stored: every pixel is labelled with its own position
Stored(width, height) ==
  [width |-> width, height |-> height,
   px |-> [s \in Pixels(width, height) |-> s]]

Blank == <<-1, -1>>

\* canvas calls made for an orientation: the switch of rotateImage
RotateOf(orientation) ==
  CASE orientation \in {5, 6} -> 90
    [] orientation \in {7, 8} -> -90
    [] orientation = 3 -> 180
    [] OTHER -> 0
FlipXOf(orientation) == orientation \in {2, 5, 7}
FlipYOf(orientation) == orientation = 4
SwapOf(orientation) == orientation \in {5, 6, 7, 8}

\* ctx.rotate(angle): x' = x cos - y sin, y' = x sin + y cos
CtxRotate(rotate, p) ==
  CASE rotate = 90 -> <<-p[2], p[1]>>
    [] rotate = 180 -> <<-p[1], -p[2]>>
    [] rotate = -90 -> <<p[2], -p[1]>>
    [] OTHER -> p

\* ctx.scale(-1, 1) and ctx.scale(1, -1)
CtxScale(flipX, flipY, p) ==
  <<IF flipX THEN -p[1] ELSE p[1], IF flipY THEN -p[2] ELSE p[2]>>

\* What the canvas holds after translate, rotate, scale and
\* drawImage(img, -img.width / 2, -img.height / 2). The transform is
\* translate * rotate * scale, so a point of the image is scaled first, then
\* rotated, then translated. Coordinates are doubled pixel centres, which
\* keeps the arithmetic in the integers.
CanvasDraw(img, orientation) ==
  LET swap == SwapOf(orientation)
      width == IF swap THEN img.height ELSE img.width
      height == IF swap THEN img.width ELSE img.height
      Device(s) ==
        LET c == CtxRotate(RotateOf(orientation),
                   CtxScale(FlipXOf(orientation), FlipYOf(orientation),
                     <<2 * s[1] + 1 - img.width, 2 * s[2] + 1 - img.height>>))
        IN <<(c[1] + width - 1) \div 2, (c[2] + height - 1) \div 2>>
      Drawn(d) == {s \in Pixels(img.width, img.height) : Device(s) = d}
  IN [width |-> width, height |-> height,
      px |-> [d \in Pixels(width, height) |->
                IF Drawn(d) = {} THEN Blank ELSE img.px[CHOOSE s \in Drawn(d) : TRUE]]]

CorrectorSteps == {"ok", "read error", "decode error", "no context", "no blob"}

rotateImageAlwaysRedraws(file, orientation, step) ==
  IF step # "ok" THEN file
  ELSE [object |-> "rotatedFile", image |-> CanvasDraw(file.image, orientation)]

\* rotateImage: the promise's value. step is what happens on the way:
\* reader.onerror, img.onerror, getContext yields null, toBlob yields null.
rotateImage(file, orientation, step) ==
  IF orientation = 1 THEN file
  ELSE IF step # "ok" THEN file
  ELSE [object |-> "rotatedFile", image |-> CanvasDraw(file.image, orientation)]

\* ===================================================== one file's processing
\* The mapper handleFiles applies to each valid file (orientation, rotation,
\* preview, candidate) and the bytes uploadFile then sends for it.
TheFile == [object |-> "file", image |-> Stored(2, 1)]

Rejected == [rejected |-> TRUE]

\* whole files and the empty file
ProcessBuffers ==
  {b \in Buffers : b.bytes = <<>> \/ \E w \in WholeFiles : w.bytes = b.bytes}

ProcessInit ==
  /\ arg \in {[buffer |-> b, readOk |-> ok, step |-> st, previewOk |-> pv] :
                b \in ProcessBuffers, ok \in BOOLEAN, st \in CorrectorSteps,
                pv \in BOOLEAN}
  /\ ret = Undefined
  /\ InitComponent /\ InitServer

\* const rotatedFile = await rotateImage(file, orientation)
Rotate ==
  /\ Len(ret) = 1
  /\ ret[1].resolved
  /\ ret' = Append(ret, rotateImage(TheFile, ret[1].value, arg.step))
  /\ UNCHANGED <<arg, env, store, srvLog, componentVars>>

\* the preview read of rotatedFile, then the FileUploadState of the file
MakeCandidate ==
  /\ Len(ret) = 2
  /\ ret' = Append(ret,
       IF arg.previewOk
       THEN [file |-> TheFile,
             rotatedFile |-> IF ret[1].value # 1 THEN <<ret[2]>> ELSE Undefined,
             status |-> "idle"]
       ELSE Rejected)
  /\ UNCHANGED <<arg, env, store, srvLog, componentVars>>

fileToUploadOriginal(fileState) == fileState.file

\* uploadFile: fileToUpload = fileState.rotatedFile || fileState.file
fileToUpload(fileState) ==
  IF fileState.rotatedFile # Undefined THEN fileState.rotatedFile[1] ELSE fileState.file

UploadCandidate ==
  /\ Len(ret) = 3
  /\ ret[3] # Rejected
  /\ ret' = Append(ret, fileToUpload(ret[3]))
  /\ UNCHANGED <<arg, env, store, srvLog, componentVars>>

ProcessNext == ReadOrientation \/ Rotate \/ MakeCandidate \/ UploadCandidate

ProcessSpec == ProcessInit /\ [][ProcessNext]_vars

\* C14: the orientation the reader yields and the corrector receives is an
\* integer in 1..8; a tag value outside 1..8 is read as 1, and the file then
\* gets no corrected bytes.
C14_OrientationIsOneToEight ==
  /\ (Len(ret) >= 1 /\ ret[1].resolved) => ret[1].value \in 1..8
  /\ (Len(ret) >= 3 /\ ret[3] # Rejected /\ arg.buffer.sound
        /\ arg.buffer.value \notin 1..8) => ret[3].rotatedFile = Undefined

\* ---- rotateImage applied to one decodable image
\* largest width and height of the image
MaxSide == 3

CorrectorInit ==
  /\ arg \in {[file |-> [object |-> "file", image |-> Stored(w, h)], orientation |-> o] :
                w \in 1..MaxSide, h \in 1..MaxSide, o \in 1..8}
  /\ ret = Undefined
  /\ InitComponent /\ InitServer

Correct ==
  /\ ret = Undefined
  /\ ret' = <<rotateImage(arg.file, arg.orientation, "ok")>>
  /\ UNCHANGED <<arg, env, store, srvLog, componentVars>>

CorrectorNext == Correct

CorrectorSpec == CorrectorInit /\ [][CorrectorNext]_vars

\* The upright image of a stored image, by the Exif meaning of the code:
\* 1 as stored, 2 mirrored left-right, 3 rotated 180, 4 mirrored top-bottom,
\* 5 transposed, 6 rotated 90 clockwise, 7 transverse, 8 rotated 90
\* counter-clockwise. d is a pixel of the upright image, w and h are the
\* stored width and height.
StandardSource(code, d, w, h) ==
  CASE code = 2 -> <<w - 1 - d[1], d[2]>>
    [] code = 3 -> <<w - 1 - d[1], h - 1 - d[2]>>
    [] code = 4 -> <<d[1], h - 1 - d[2]>>
    [] code = 5 -> <<d[2], d[1]>>
    [] code = 6 -> <<d[2], h - 1 - d[1]>>
    [] code = 7 -> <<w - 1 - d[2], h - 1 - d[1]>>
    [] code = 8 -> <<w - 1 - d[2], d[1]>>
    [] OTHER -> d

StandardCorrection(img, code) ==
  LET width == IF code \in 5..8 THEN img.height ELSE img.width
      height == IF code \in 5..8 THEN img.width ELSE img.height
  IN [width |-> width, height |-> height,
      px |-> [d \in Pixels(width, height) |->
                img.px[StandardSource(code, d, img.width, img.height)]]]

\* C15: for each code 1..8 the corrector's output is the stored image with
\* the standard correction of that code, width and height swapped exactly for
\* the codes 5..8.
C15_OutputIsStandardCorrection ==
  ret # Undefined => ret[1].image = StandardCorrection(arg.file.image, arg.orientation)

\* C16: with orientation 1 the corrector returns the very object it was
\* given, the candidate gets no corrected file, and the file uploaded is the
\* original one.
C16_OrientationOneKeepsOriginal ==
  (Len(ret) >= 2 /\ ret[1].value = 1) =>
    /\ ret[2] = TheFile
    /\ (Len(ret) >= 3 /\ ret[3] # Rejected) => ret[3].rotatedFile = Undefined
    /\ Len(ret) >= 4 => ret[4] = TheFile

\* a file whose Orientation tag holds 1 has been processed and uploaded
C16_Witness ==
  /\ Len(ret) = 4 /\ ret[1] = Resolved(1) /\ ret[4] = TheFile
  /\ arg.readOk /\ arg.buffer.sound /\ arg.buffer.value = 1

\* C17: for an orientation other than 1, when a step of the correction fails
\* (file read, image decode, no drawing context, no blob) the corrector still
\* completes with the original file, and the candidate is admitted and
\* uploaded with the original file.
C17_FailedCorrectionKeepsOriginal ==
  (Len(ret) >= 2 /\ ret[1].value # 1 /\ arg.step # "ok") =>
    /\ ret[2] = TheFile
    /\ Len(ret) >= 3 => (ret[3] # Rejected /\ fileToUpload(ret[3]) = TheFile)
    /\ Len(ret) >= 4 => ret[4] = TheFile

\* =================================================================== server
\* The storage-facing entry points: POST /api/upload, /api/upload/signature,
\* /api/upload/delete and /api/upload/metadata. One action is one request
\* handled from its arrival to its response; store is what the storage
\* service holds, srvLog what each request got and which storage calls it made.
MaxRequests == 2

Credentials == {"CLOUDINARY_CLOUD_NAME", "CLOUDINARY_API_KEY", "CLOUDINARY_API_SECRET"}

credentialsSetUnlessAllMissing == \E c \in Credentials : env[c]

\* the negation of !process.env.CLOUDINARY_CLOUD_NAME || !..API_KEY || !..API_SECRET
credentialsSet == \A c \in Credentials : env[c]

ConfigMessage == "Cloudinary is not configured, check the .env.local file"

\* a body req.json() / req.formData() cannot parse
Unparseable == [parses |-> FALSE]

Response(status, message, body) == [status |-> status, message |-> message, body |-> body]
NoBody == <<>>
NoCall == <<>>

\* what the handler did: its response, the storage calls it made, the store after
Handled(resp, calls, after) == [resp |-> resp, calls |-> calls, store |-> after]

ObjectIds == {<<"receipts/", "Kim_20250110", "_", "1">>, <<"receipts/", "Kim_20250110", "_", "2">>}

Answer(route, req, outcome, h) ==
  /\ Len(srvLog) < MaxRequests
  /\ srvLog' = Append(srvLog, [route |-> route, req |-> req, outcome |-> outcome,
                               before |-> store, resp |-> h.resp, calls |-> h.calls])
  /\ store' = h.store
  /\ UNCHANGED <<env, arg, ret, componentVars>>

\* ------------------------------------------------------ /api/upload/delete
DeleteOutcomes == {"answer", "refused", "fault"}

\* cloudinary.uploader.destroy: the result the storage service reports
destroy(public_id, outcome) ==
  IF outcome = "refused" THEN "error"
  ELSE IF public_id \in store THEN "ok" ELSE "not found"

DeleteSucceededOnlyIfOk(result) == result = "ok"

DeleteSucceeded(result) == result = "ok" \/ result = "not found"

DeleteHandler(req, outcome) ==
  IF ~req.parses
  THEN Handled(Response(500, "image deletion failed, try again later", NoBody), NoCall, store)
  ELSE IF req.public_id = Undefined
  THEN Handled(Response(400, "public_id is required", NoBody), NoCall, store)
  ELSE IF ~credentialsSet
  THEN Handled(Response(500, ConfigMessage, NoBody), NoCall, store)
  ELSE LET calls == <<[api |-> "destroy", public_id |-> req.public_id]>> IN
       IF outcome = "fault"
       THEN Handled(Response(500, "storage error message", NoBody), calls, store)
       ELSE LET result == destroy(req.public_id, outcome) IN
            IF DeleteSucceeded(result)
            THEN Handled(Response(200, "image deleted", [success |-> TRUE, result |-> result]),
                         calls, store \ {req.public_id})
            ELSE Handled(Response(500, "image deletion failed", [success |-> FALSE, result |-> result]),
                         calls, store)

\* outcome is drawn only for a request that reaches the storage service
Reaches(h, outcome) == (h.calls = NoCall) <=> (outcome = "none")

DeleteRequests == {Unparseable} \cup
  {[parses |-> TRUE, public_id |-> id] : id \in {Undefined} \cup ObjectIds}

DeletePOST(req, outcome) ==
  /\ Reaches(DeleteHandler(req, outcome), outcome)
  /\ Answer("delete", req, outcome, DeleteHandler(req, outcome))

\* --------------------------------------------------- /api/upload/signature
\* A text is a sequence of characters or longer pieces.
Digit == <<"0", "1", "2", "3", "4", "5", "6", "7", "8", "9">>

\* String(n) and n.toString() of a non-negative integer: its decimal digits
RECURSIVE DecimalString(_)
DecimalString(n) ==
  IF n < 10 THEN <<Digit[n + 1]>> ELSE DecimalString(n \div 10) \o <<Digit[(n % 10) + 1]>>

RECURSIVE Join(_, _)
Join(texts, separator) ==
  IF texts = <<>> THEN <<>>
  ELSE IF Len(texts) = 1 THEN texts[1]
  ELSE texts[1] \o <<separator>> \o Join(Tail(texts), separator)

\* seconds since the epoch at which a signing request is handled
Times == {17, 18}

\* Object.keys(signatureParams), in the order the keys are assigned
AssignmentOrder == <<"public_id", "folder", "context", "asset_folder", "timestamp">>

\* Array.prototype.sort() on the keys that can occur
SortedOrder == <<"asset_folder", "context", "folder", "public_id", "timestamp">>

SignatureParamsWithoutAssetFolder(req, now) ==
  LET index == IF req.fileIndex # Undefined THEN req.fileIndex ELSE DecimalString(now * 1000)
      finalPublicId ==
        IF req.invoiceName # Undefined
        THEN <<"receipts/">> \o req.invoiceName \o <<"_">> \o index
        ELSE req.publicId
  IN [asset_folder |-> Undefined,
      public_id |-> finalPublicId,
      folder |-> IF finalPublicId # Undefined THEN Undefined ELSE <<"receipts">>]

SignatureParams(req, now) ==
  LET index == IF req.fileIndex # Undefined THEN req.fileIndex ELSE DecimalString(now * 1000)
      finalPublicId ==
        IF req.invoiceName # Undefined
        THEN <<"receipts/">> \o req.invoiceName \o <<"_">> \o index
        ELSE req.publicId
  IN [asset_folder |-> req.invoiceName,
      public_id |-> finalPublicId,
      folder |-> IF finalPublicId # Undefined THEN Undefined ELSE <<"receipts">>]

stringToSignUnsorted(params, timestamp) ==
  LET signatureParams == [public_id |-> params.public_id, folder |-> params.folder,
                          context |-> Undefined, asset_folder |-> params.asset_folder,
                          timestamp |-> DecimalString(timestamp)]
      keys == SelectSeq(AssignmentOrder, LAMBDA key : signatureParams[key] # Undefined)
  IN Join([k \in 1..Len(keys) |-> <<keys[k], "=">> \o signatureParams[keys[k]]], "&")

\* signatureParams holds the truthy entries of params as strings, and the
\* timestamp; the string is key=value of the sorted keys, joined by &
stringToSign(params, timestamp) ==
  LET signatureParams == [public_id |-> params.public_id, folder |-> params.folder,
                          context |-> Undefined, asset_folder |-> params.asset_folder,
                          timestamp |-> DecimalString(timestamp)]
      sortedKeys == SelectSeq(SortedOrder, LAMBDA key : signatureParams[key] # Undefined)
  IN Join([k \in 1..Len(sortedKeys) |->
             <<sortedKeys[k], "=">> \o signatureParams[sortedKeys[k]]], "&")

SignatureHandler(req, now) ==
  IF ~req.parses
  THEN Handled(Response(500, "signature creation failed", NoBody), NoCall, store)
  ELSE IF ~credentialsSet
  THEN Handled(Response(500, ConfigMessage, NoBody), NoCall, store)
  ELSE LET params == SignatureParams(req, now) IN
       Handled(Response(200, "",
                 [signature |-> <<"sha1(">> \o stringToSign(params, now) \o <<"api_secret", ")">>,
                  timestamp |-> now,
                  params |-> params,
                  stringToSign |-> stringToSign(params, now)]),
               NoCall, store)

SignatureRequests == {Unparseable} \cup
  [parses : {TRUE}, invoiceName : {Undefined, invoiceName},
   fileIndex : {Undefined, <<"1">>}, publicId : {Undefined, <<"custom">>}]

SignaturePOST(req, now) == Answer("signature", req, "none", SignatureHandler(req, now))

\* ------------------------------------------------------------- /api/upload
StorageOutcomes == {"answer", "fault"}

MAX_FILE_SIZE == 10 * 1024 * 1024

\* file.size of the request's file
FileSize(file) ==
  CASE file = "limit" -> MAX_FILE_SIZE
    [] file = "large" -> MAX_FILE_SIZE + 1

\* What the try block can throw once the storage call is made: the value
\* upload_stream's callback passes to reject.  It is an Error, some other
\* object, or undefined (no error and no result).  includes lists the
\* substrings the catch block looks for that the lower-cased message holds.
Thrown(instance, message, includes) ==
  [instance |-> instance, message |-> message, includes |-> includes]

UploadFaults ==
  {"Error: Request timed out", "Error: 401 Unauthorized", "Error: 413 Payload Too Large",
   "Error: Invalid api_key", "Error: socket hang up", "object: Request Timeout",
   "undefined"}

StorageError(outcome) ==
  CASE outcome = "Error: Request timed out" -> Thrown(TRUE, "Request timed out", {"timed out"})
    [] outcome = "Error: 401 Unauthorized" -> Thrown(TRUE, "401 Unauthorized", {"401", "unauthorized"})
    [] outcome = "Error: 413 Payload Too Large" ->
         Thrown(TRUE, "413 Payload Too Large", {"413", "payload too large"})
    [] outcome = "Error: Invalid api_key" -> Thrown(TRUE, "Invalid api_key", {"invalid", "api"})
    [] outcome = "Error: socket hang up" -> Thrown(TRUE, "socket hang up", {})
    [] outcome = "object: Request Timeout" -> Thrown(FALSE, "Request Timeout", {"timeout"})
    [] outcome = "undefined" -> Thrown(FALSE, "", {})

\* request.formData() on a body that is no form
FormDataError == Thrown(TRUE, "Failed to parse body as FormData.", {})

UploadFailedMessage == "file upload failed, try again later"

\* the catch block: status and message for the value that was thrown
CatchResponse(error) ==
  IF ~error.instance
  THEN Response(500, UploadFailedMessage, NoBody)
  ELSE IF error.includes \cap {"413", "payload too large", "request entity too large"} # {}
  THEN Response(413, "file too large, at most 10MB", NoBody)
  ELSE IF error.includes \cap {"timeout", "timed out", "503"} # {}
  THEN Response(503, "upload timed out, make the file smaller or try again later", NoBody)
  ELSE IF "invalid" \in error.includes /\ "api" \in error.includes
  THEN Response(500, "Cloudinary API settings are wrong", NoBody)
  ELSE IF error.includes \cap {"unauthorized", "401"} # {}
  THEN Response(401, "Cloudinary authentication failed", NoBody)
  ELSE Response(500, IF error.message # "" THEN error.message ELSE UploadFailedMessage, NoBody)

UploadHandler(req, outcome) ==
  IF ~req.parses
  THEN Handled(CatchResponse(FormDataError), NoCall, store)
  ELSE IF req.file = "none"
  THEN Handled(Response(400, "no file to upload", NoBody), NoCall, store)
  ELSE IF ~credentialsSet
  THEN Handled(Response(500, ConfigMessage, NoBody), NoCall, store)
  ELSE IF FileSize(req.file) > MAX_FILE_SIZE
  THEN Handled(Response(413, "file too large, at most 10MB", NoBody), NoCall, store)
  ELSE LET publicId == <<"receipts/">> \o invoiceName \o <<"_">> \o req.fileIndex
           calls == <<[api |-> "upload_stream", public_id |-> publicId,
                       size |-> FileSize(req.file)]>>
       IN IF outcome \in UploadFaults
          THEN Handled(CatchResponse(StorageError(outcome)), calls, store)
          ELSE Handled(Response(201, "", [public_id |-> publicId]), calls,
                       store \cup {publicId})

UploadRequests == {Unparseable} \cup
  [parses : {TRUE}, file : {"none", "limit", "large"}, fileIndex : {<<"1">>, <<"2">>}]

UploadPOST(req, outcome) ==
  /\ Reaches(UploadHandler(req, outcome), outcome)
  /\ Answer("upload", req, outcome, UploadHandler(req, outcome))

\* ---------------------------------------------------- /api/upload/metadata
MetadataHandler(req, outcome) ==
  IF ~req.parses
  THEN Handled(Response(500, "metadata update failed", NoBody), NoCall, store)
  ELSE IF req.publicId = Undefined
  THEN Handled(Response(400, "public_id is required", NoBody), NoCall, store)
  ELSE IF ~credentialsSet
  THEN Handled(Response(500, ConfigMessage, NoBody), NoCall, store)
  ELSE IF req.invoiceName = Undefined
  THEN Handled(Response(200, "", [success |-> TRUE, public_id |-> req.publicId]), NoCall, store)
  ELSE LET calls == <<[api |-> "add_context", public_id |-> req.publicId]>> IN
       IF outcome = "fault"
       THEN Handled(Response(500, "metadata update failed", NoBody), calls, store)
       ELSE Handled(Response(200, "", [success |-> TRUE, public_id |-> req.publicId]),
                    calls, store)

MetadataRequests == {Unparseable} \cup
  [parses : {TRUE}, publicId : {Undefined} \cup ObjectIds, invoiceName : {Undefined, invoiceName}]

MetadataPOST(req, outcome) ==
  /\ Reaches(MetadataHandler(req, outcome), outcome)
  /\ Answer("metadata", req, outcome, MetadataHandler(req, outcome))

\* ------------------------------------------------------------ server runs
ServerInit ==
  /\ env \in [Credentials -> BOOLEAN]
  /\ store \in SUBSET ObjectIds
  /\ srvLog = <<>>
  /\ InitComponent /\ InitFunction

ServerNext ==
  \/ \E req \in UploadRequests, o \in UploadFaults \cup {"answer", "none"} : UploadPOST(req, o)
  \/ \E req \in SignatureRequests, now \in Times : SignaturePOST(req, now)
  \/ \E req \in DeleteRequests, o \in DeleteOutcomes \cup {"none"} : DeletePOST(req, o)
  \/ \E req \in MetadataRequests, o \in StorageOutcomes \cup {"none"} : MetadataPOST(req, o)

ServerSpec == ServerInit /\ [][ServerNext]_vars

\* key=value of the pairs that have a value, in the order given, joined by &
KeyValueText(pairs) ==
  LET present == SelectSeq(pairs, LAMBDA p : p[2] # Undefined)
  IN Join([k \in 1..Len(present) |-> <<present[k][1], "=">> \o present[k][2]], "&")

SignatureAnswers == {k \in 1..Len(srvLog) : srvLog[k].route = "signature" /\ srvLog[k].resp.status = 200}

\* C18 as amended: the signed string is key=value, in alphabetical key order
\* and joined by &, of the entries of the returned params field together with
\* the returned timestamp field (as a decimal string): it can be rebuilt from
\* those two fields of the response, and asset_folder is signed when present.
C18_SignedStringFromParamsAndTimestamp ==
  \A k \in SignatureAnswers :
    LET body == srvLog[k].resp.body IN
    body.stringToSign =
      KeyValueText(<<<<"asset_folder", body.params.asset_folder>>,
                     <<"folder", body.params.folder>>,
                     <<"public_id", body.params.public_id>>,
                     <<"timestamp", DecimalString(body.timestamp)>>>>)

\* a request with a collection name has been signed: asset_folder, public_id
\* and timestamp are in the string
C18_Witness ==
  \E k \in SignatureAnswers :
    /\ srvLog[k].req.invoiceName # Undefined
    /\ srvLog[k].resp.body.params.asset_folder # Undefined
    /\ Len(srvLog[k].resp.body.stringToSign) > 8

\* C18 as stated: the signed string is key=value, in alphabetical key order
\* and joined by &, of exactly the keys and values the returned params field
\* holds.
C18_SignedStringFromParams ==
  \A k \in SignatureAnswers :
    LET body == srvLog[k].resp.body IN
    body.stringToSign =
      KeyValueText(<<<<"asset_folder", body.params.asset_folder>>,
                     <<"folder", body.params.folder>>,
                     <<"public_id", body.params.public_id>>>>)

MissingCredential == \E c \in Credentials : ~env[c]

\* the request passes the input check its entry point makes first: the body
\* parses and holds the file (upload), the public_id (delete, metadata)
PassesInputCheck(entry) ==
  /\ entry.req.parses
  /\ entry.route = "upload" => entry.req.file # "none"
  /\ entry.route = "delete" => entry.req.public_id # Undefined
  /\ entry.route = "metadata" => entry.req.publicId # Undefined

DeleteAnswers == {k \in 1..Len(srvLog) : srvLog[k].route = "delete" /\ srvLog[k].outcome = "answer"}

\* C20: a delete request the storage service answers returns 200 with
\* success true whether the object existed or not, 'not found' included, and
\* leaves the object absent; so deleting twice succeeds twice.
C20_DeleteIsIdempotent ==
  \A k \in DeleteAnswers :
    LET e == srvLog[k] IN
    /\ e.resp.status = 200 /\ e.resp.body.success
    /\ e.resp.body.result = (IF e.req.public_id \in e.before THEN "ok" ELSE "not found")
    /\ \A j \in DeleteAnswers :
         (j < k /\ srvLog[j].req.public_id = e.req.public_id
            /\ \A m \in (j + 1)..(k - 1) : srvLog[m].route # "upload")
           => e.resp.body.result = "not found"

\* an object that existed was deleted and then deleted again
C20_Witness ==
  /\ Len(srvLog) = 2
  /\ DeleteAnswers = {1, 2}
  /\ srvLog[1].req.public_id = srvLog[2].req.public_id
  /\ srvLog[1].resp.body.result = "ok"
  /\ srvLog[2].resp.body.result = "not found"
  /\ srvLog[2].resp.status = 200 /\ srvLog[2].resp.body.success

\* ------------------------------------------------------- /api/make-webhook
\* Request bodies are texts, one token per element; " " is insignificant
\* whitespace.  request.json() parses the text, JSON.stringify writes the
\* parsed value back without whitespace.
Json(type, value) == [parses |-> TRUE, type |-> type, value |-> value]

Strip(text) == SelectSeq(text, LAMBDA t : t # " ")

\* items and commas alternate between the brackets
ArrayItems(t) ==
  LET inner == SubSeq(t, 2, Len(t) - 1)
      items == SelectSeq(inner, LAMBDA x : x # ",")
      wellFormed == /\ Len(t) >= 2 /\ t[Len(t)] = "]"
                    /\ (Len(inner) = 0 \/ Len(inner) % 2 = 1)
                    /\ \A k \in 1..Len(inner) :
                         (inner[k] = ",") <=> (k % 2 = 0)
                    /\ \A k \in 1..Len(inner) : inner[k] \notin {"[", "]", "{", "}"}
  IN IF wellFormed THEN Json("array", items) ELSE Unparseable

ParseJson(text) ==
  LET t == Strip(text) IN
  IF Len(t) = 0 THEN Unparseable
  ELSE IF t[1] = "[" THEN ArrayItems(t)
  ELSE IF t = <<"{", "}">> THEN Json("object", <<>>)
  ELSE IF Len(t) # 1 THEN Unparseable
  ELSE IF t[1] = "null" THEN Json("null", <<>>)
  ELSE IF t[1] \in {"true", "false"} THEN Json("boolean", t)
  ELSE IF t[1] \in {"0", "5"} THEN Json("number", t)
  ELSE IF t[1] = "\"\"" THEN Json("string", <<>>)
  ELSE IF t[1] = "\"a\"" THEN Json("string", <<"a">>)
  ELSE Unparseable

RECURSIVE CommaSeparated(_)
CommaSeparated(items) ==
  IF Len(items) = 0 THEN <<>>
  ELSE IF Len(items) = 1 THEN items
  ELSE <<items[1], ",">> \o CommaSeparated(Tail(items))

\* JSON.stringify of an array
StringifyArray(body) == <<"[">> \o CommaSeparated(body.value) \o <<"]">>

\* !body
Falsy(body) ==
  \/ body.type = "null"
  \/ body.type = "boolean" /\ body.value = <<"false">>
  \/ body.type = "number" /\ body.value = <<"0">>
  \/ body.type = "string" /\ body.value = <<>>

isArray(body) == body.type = "array"

NotArrayNorObject(body) == body.type \notin {"array", "object"}

\* !Array.isArray(body)
NotArray(body) == ~isArray(body)

DownstreamOutcomes == {"ok", "non2xx", "network"}

MakeWebhookHandler(text, outcome) ==
  LET body == ParseJson(text) IN
  IF ~body.parses
  THEN Handled(Response(500, "server error", NoBody), NoCall, store)
  ELSE IF Falsy(body) \/ (isArray(body) /\ Len(body.value) = 0)
  THEN Handled(Response(400, "no files to send", NoBody), NoCall, store)
  ELSE IF NotArray(body)
  THEN Handled(Response(400, "wrong data format", NoBody), NoCall, store)
  ELSE LET calls == <<[api |-> "fetch", body |-> StringifyArray(body)]>> IN
       IF outcome = "network"
       THEN Handled(Response(500, "server error", NoBody), calls, store)
       ELSE IF outcome = "non2xx"
       THEN Handled(Response(429, "Make.com webhook call failed", NoBody), calls, store)
       ELSE Handled(Response(200, "processing started", [success |-> TRUE]), calls, store)

BodyTexts ==
  { <<>>, <<"[">>, <<"null">>, <<"false">>, <<"true">>, <<"0">>, <<"5">>, <<"\"\"">>,
    <<"\"a\"">>, <<"{", "}">>, <<"[", "]">>, <<"[", " ", "]">>, <<"[", "{r1}", "]">>,
    <<"[", "5", "]">>, <<"[", "{r1}", ",", " ", "{r2}", "]">>, <<" ", "[", "{r1}", "]">> }

MakeWebhookPOST(text, outcome) ==
  /\ Reaches(MakeWebhookHandler(text, outcome), outcome)
  /\ Answer("make-webhook", text, outcome, MakeWebhookHandler(text, outcome))

NotifyInit == InitComponent /\ InitFunction /\ InitServer

NotifyNext == \E text \in BodyTexts, o \in DownstreamOutcomes \cup {"none"} :
                MakeWebhookPOST(text, o)

NotifySpec == NotifyInit /\ [][NotifyNext]_vars

NotifyAnswers == {srvLog[k] : k \in 1..Len(srvLog)}

NonEmptyArray(text) ==
  LET body == ParseJson(text) IN body.parses /\ isArray(body) /\ Len(body.value) > 0

WellFormedWithOrientation(b) == b.sound /\ b.value \in 1..8

\* C22: for a well-formed JPEG whose tag directory holds the orientation tag
\* with value v in 1..8 the reader returns v, in big-endian and in
\* little-endian directories alike.
C22_ReaderHonoursDeclaredByteOrder ==
  (ret # Undefined /\ arg.readOk /\ WellFormedWithOrientation(arg.buffer))
    => ret[1] = Resolved(arg.buffer.value)

\* the part of C22 that the reader does fulfil: big-endian directories
C22_BigEndianDirectoriesAreRead ==
  (ret # Undefined /\ arg.readOk /\ WellFormedWithOrientation(arg.buffer)
     /\ ~arg.buffer.littleEndian)
    => ret[1] = Resolved(arg.buffer.value)

\* every little-endian directory reads as 1, whatever its orientation value
C22_LittleEndianDirectoriesReadAsOne ==
  (ret # Undefined /\ arg.readOk /\ WellFormedWithOrientation(arg.buffer)
     /\ arg.buffer.littleEndian)
    => ret[1] = Resolved(1)

\* signing requests that name a collection and an index, answered 200
NamedSignatureAnswers ==
  {k \in SignatureAnswers : srvLog[k].req.invoiceName # Undefined
                            /\ srvLog[k].req.fileIndex # Undefined}

\* C23 (as amended): for a signing request with collection name C and index i
\* the returned parameters contain asset_folder=C and
\* public_id=receipts/C_i, and the string that is signed is
\* asset_folder=C&public_id=receipts/C_i&timestamp=<n>: the asset_folder pair
\* is signed too, ahead of the other two in alphabetical key order.
C23_NamedRequestSignsAssetFolderToo ==
  \A k \in NamedSignatureAnswers :
    LET C == srvLog[k].req.invoiceName
        i == srvLog[k].req.fileIndex
        body == srvLog[k].resp.body
        id == <<"receipts/">> \o C \o <<"_">> \o i
    IN /\ body.params.asset_folder = C
       /\ body.params.public_id = id
       /\ body.stringToSign =
            <<"asset_folder", "=">> \o C \o <<"&", "public_id", "=">> \o id
              \o <<"&", "timestamp", "=">> \o DecimalString(body.timestamp)

\* a request for collection Kim_20250110, index 1 has been signed
C23_Witness ==
  \E k \in NamedSignatureAnswers :
    /\ srvLog[k].req.invoiceName = invoiceName
    /\ srvLog[k].req.fileIndex = <<"1">>
    /\ srvLog[k].resp.body.signature # Undefined

\* C23 as stated: the signed string consists of exactly the public_id pair
\* and the timestamp pair.
C23_SignedStringIsPublicIdAndTimestamp ==
  \A k \in NamedSignatureAnswers :
    LET body == srvLog[k].resp.body IN
    body.stringToSign =
      <<"public_id", "=">> \o body.params.public_id
        \o <<"&", "timestamp", "=">> \o DecimalString(body.timestamp)

\* requests after the step: one per file at most, only for files of a
\* selection event; deletions and notifications only out of a click
RequestsOnlyOnce ==
  /\ \A j, k \in 1..Len(uploadReqs') :
       uploadReqs'[j].file = uploadReqs'[k].file => j = k
  /\ \A k \in 1..Len(uploadReqs') :
       \E e \in 1..Len(events') : uploadReqs'[k].file \in Range(events'[e].newFiles)
  /\ deleteReqs' # deleteReqs => ClickOf("handleRemove") \/ ClickOf("handleRemoveAll")
  /\ webhookReqs' # webhookReqs =>
       ClickOf("complete") /\ Len(webhookReqs') = Len(webhookReqs) + 1

\* C24: nothing is retried automatically: no file has two upload requests,
\* requests go out only for files of a selection event, and a deletion or
\* notification request is issued only by the step that handles a click on
\* remove, remove-all or complete, one notification per click.
C24_NothingIsRetried == [][RequestsOnlyOnce]_vars

\* a failed candidate is in the batch, every request has returned, and its
\* file has had its one request
C24_Witness ==
  /\ \E k \in 1..Len(files) :
       /\ files[k].status = "error"
       /\ \E r \in 1..Len(uploadReqs) : uploadReqs[r].file = files[k].file
  /\ \A e \in 1..Len(events) : events[e].phase = "done"
  /\ Len(uploadReqs) = MaxFiles

\* positions of the candidates that are succeeded now
Succeeded == {k \in 1..Len(files) : files[k].status = "success"}

\* the deletion requests the step issues
NewDeleteReqs == SubSeq(deleteReqs', Len(deleteReqs) + 1, Len(deleteReqs'))

\* the click: one request per succeeded candidate and none for any other;
\* the batch stays while a request is out and is emptied by the step in which
\* the last of them resolves, whatever the outcomes
RemoveAllStep ==
  /\ ClickOf("handleRemoveAll") =>
       /\ Len(NewDeleteReqs) = Cardinality(Succeeded)
       /\ \A k \in Succeeded : files[k].result.fileId \in Range(NewDeleteReqs)
       /\ \A r \in 1..Len(NewDeleteReqs) :
            \E k \in Succeeded : files[k].result.fileId = NewDeleteReqs[r]
       /\ pendingRemoveAll' \ pendingRemoveAll =
            IF Succeeded = {} THEN {} ELSE {<<clicks', Cardinality(Succeeded)>>}
       /\ files' = IF Succeeded = {} THEN <<>> ELSE files
  /\ lastOp'.op = "RemoveAllDeleteSettled" =>
       files' = files /\ deleteReqs' = deleteReqs /\ pendingRemoveAll' # {}
  /\ lastOp'.op = "RemoveAllSettled" =>
       /\ files' = <<>> /\ deleteReqs' = deleteReqs
       /\ \E p \in pendingRemoveAll : p[2] = 1 /\ pendingRemoveAll' = pendingRemoveAll \ {p}

\* C25: remove-all issues one deletion request for every candidate that is
\* succeeded when it is invoked and none for a pending, in-flight or failed
\* one, keeps the batch until each of those requests has resolved, and then
\* leaves the batch empty whatever the deletions' outcomes.
C25_RemoveAllDeletesSucceededThenEmpties == [][RemoveAllStep]_vars

\* remove-all was invoked on two candidates of which one was succeeded, its
\* one deletion failed, and the batch is empty
C25_Witness ==
  /\ lastOp.op = "RemoveAllSettled" /\ lastOp.outcome = "network"
  /\ Len(admitted) = 2 /\ Len(deleteReqs) = 1
  /\ files = <<>> /\ mounted

\* a discarded candidate, one that was admitted and is not in the batch,
\* stays out of the batch
DiscardedStaysOut ==
  \A f \in Range(admitted) : ~InBatch(f) => f \notin FileSet(files')

\* the step issues no upload request for a file whose candidate has been
\* discarded from the batch of the mounted component
NoRequestForDiscarded ==
  (mounted' /\ Len(uploadReqs') > Len(uploadReqs))
    => uploadReqs'[Len(uploadReqs')].file \in FileSet(files')

\* the result of a request whose candidate has been discarded changes no
\* remaining candidate's result, and no status except that of the pending
\* candidate whose upload the loop starts next
ResultOfDiscardedIsDisregarded ==
  (lastOp'.op = "UploadSettled" /\ ~InBatch(lastOp'.file))
    => /\ Len(files') = Len(files)
       /\ \A k \in 1..Len(files) :
            /\ files'[k].file = files[k].file /\ files'[k].result = files[k].result
            /\ \/ files'[k].status = files[k].status
               \/ files[k].status = "idle" /\ files'[k].status = "uploading"

\* C26: once a candidate has been discarded it never reappears in the batch,
\* no upload request is issued for it afterwards, and the result of a request
\* for it leaves every remaining candidate's status and result unchanged.
C26_DiscardedCandidateIsLeftAlone ==
  [][DiscardedStaysOut /\ NoRequestForDiscarded /\ ResultOfDiscardedIsDisregarded]_vars

\* the two parts of C26 that hold: no reappearance, results disregarded
C26_DiscardedStaysOutAndResultDisregarded ==
  [][DiscardedStaysOut /\ ResultOfDiscardedIsDisregarded]_vars

\* no preview, upload, deletion or notification is outstanding
Quiescent ==
  /\ \A e \in 1..Len(events) : events[e].phase = "done"
  /\ pendingRemoves = {} /\ pendingRemoveAll = {} /\ webhookPending = {}

\* the upload that returned last has stored an object; its id
LastUploadStored ==
  lastOp.op = "UploadSettled" /\ lastOp.outcome \in {"ok_processed", "ok_raw"}

LastStoredId ==
  LET r == CHOOSE r \in 1..Len(uploadReqs) : uploadReqs[r].file = lastOp.file
  IN PublicId(invoiceName, uploadReqs[r].index)

Accounted(id) ==
  \/ \E k \in 1..Len(files) : files[k].status = "success" /\ files[k].result.fileId = id
  \/ id \in Range(deleteReqs)

\* C27: in a quiescent state of the mounted component, the object that the
\* last upload stored belongs to a succeeded candidate of the batch or has
\* had a deletion request issued for it.
C27_NoStoredObjectIsOrphaned ==
  (mounted /\ Quiescent /\ LastUploadStored) => Accounted(LastStoredId)

\* C27 where no candidate is ever pending (one file per selection event):
\* the object of an upload that was in flight when remove-all emptied the
\* batch is orphaned as well.
C27_NoOrphanWithoutPendingCandidates ==
  (mounted /\ Quiescent /\ LastUploadStored
     /\ \A e \in 1..Len(events) : Len(events[e].newFiles) = 1)
    => Accounted(LastStoredId)

\* ------------------------------------------ uploadToCloudinary, uploadFile
\* The request uploadFile sends for the candidate and what it makes of the
\* response.  props are the component's invoiceName, userName and userPhone.
UploadProps ==
  { [invoiceName |-> Undefined, userName |-> Undefined, userPhone |-> Undefined],
    [invoiceName |-> invoiceName, userName |-> userName, userPhone |-> Undefined],
    [invoiceName |-> invoiceName, userName |-> userName, userPhone |-> <<"010">>] }

\* FormData: a field is appended only when its prop is truthy
FormData(file, index, props) ==
  [file |-> file, invoiceName |-> props.invoiceName, fileIndex |-> DecimalString(index),
   userName |-> props.userName, userPhone |-> props.userPhone]

\* what comes back from /api/upload: the fetch rejects, or a response with a
\* JSON body whose message is a string, is a number or is missing, or with a
\* body that is not JSON
UploadResponses ==
  { [ok |-> TRUE, body |-> "json", message |-> ""],
    [ok |-> FALSE, body |-> "string message", message |-> "file too large, at most 10MB"],
    [ok |-> FALSE, body |-> "number message", message |-> "413"],
    [ok |-> FALSE, body |-> "no message", message |-> ""],
    [ok |-> FALSE, body |-> "not json", message |-> ""],
    [ok |-> FALSE, body |-> "rejected", message |-> "Failed to fetch"] }

FallbackMessage == "file upload failed, try again later"

\* the message of the Error uploadToCloudinary throws
ThrownMessage(response) ==
  IF response.body = "rejected" THEN response.message
  ELSE IF response.body = "string message" THEN response.message
  ELSE FallbackMessage

\* the candidate after uploadFile
Uploaded(fileState, response) ==
  IF response.ok
  THEN [file |-> fileState.file, status |-> "success", error |-> ""]
  ELSE [file |-> fileState.file, status |-> "error", error |-> ThrownMessage(response)]

SendUpload(index, props, response) ==
  /\ Len(ret) = 4
  /\ ret' = Append(ret, [request |-> FormData(ret[4], index, props), props |-> props,
                         index |-> index, response |-> response,
                         candidate |-> Uploaded(ret[3], response)])
  /\ UNCHANGED <<arg, env, store, srvLog, componentVars>>

TransmitNext ==
  \/ ProcessNext
  \/ \E index \in 1..MaxFiles, props \in UploadProps, response \in UploadResponses :
       SendUpload(index, props, response)

TransmitSpec == ProcessInit /\ [][TransmitNext]_vars

\* the bytes the corrector makes of the file for this orientation
CorrectedBytes(orientation) ==
  [object |-> "rotatedFile", image |-> CanvasDraw(TheFile.image, orientation)]

RequestCarriesPropsAndIndex(sent) ==
  /\ sent.request.invoiceName = sent.props.invoiceName
  /\ sent.request.userName = sent.props.userName
  /\ sent.request.userPhone = sent.props.userPhone
  /\ sent.request.fileIndex = <<Digit[sent.index + 1]>>

FailureCarriesMessage(sent) ==
  (~sent.response.ok /\ sent.response.body # "rejected") =>
    /\ sent.candidate.status = "error"
    /\ sent.candidate.error =
         IF sent.response.body = "string message" THEN sent.response.message
         ELSE FallbackMessage

\* C28 (as amended): the upload request transmits the corrected bytes if and
\* only if the orientation code was not 1 and the correction succeeded, and
\* the original bytes otherwise (orientation 1, or a failed correction),
\* together with the collection name and owner metadata that are set and the
\* index as a decimal string; a non-2xx response leaves the candidate failed
\* with the response's message when that is a string, else with the fallback
\* message.
C28_RequestCarriesCorrectedBytesWhenCorrected ==
  Len(ret) = 5 =>
    /\ ret[5].request.file =
         IF ret[1].value # 1 /\ arg.step = "ok"
         THEN CorrectedBytes(ret[1].value) ELSE TheFile
    /\ RequestCarriesPropsAndIndex(ret[5])
    /\ FailureCarriesMessage(ret[5])

\* a file with orientation 6 was corrected and sent with the collection name
\* and index 2, and the server answered non-2xx with a string message
C28_Witness ==
  /\ Len(ret) = 5 /\ ret[1] = Resolved(6) /\ arg.step = "ok"
  /\ ret[5].request.file = CorrectedBytes(6) /\ ret[5].request.file # TheFile
  /\ ret[5].request.invoiceName = invoiceName /\ ret[5].index = 2
  /\ ret[5].response.body = "string message" /\ ret[5].candidate.status = "error"

\* C28 as stated: the corrected bytes are transmitted if and only if the
\* orientation code was not 1.
C28_CorrectedBytesIffOrientationNotOne ==
  Len(ret) = 5 => ((ret[5].request.file # TheFile) <=> (ret[1].value # 1))

UploadAnswers == {srvLog[k] : k \in {j \in 1..Len(srvLog) : srvLog[j].route = "upload"}}

\* an upload request whose file the storage service was asked to store
AskedToStore(a) == a.calls # NoCall

\* the storage call failed with a value the route would call a timeout
\* (unauthorized): its lower-cased message holds one of the route's words
\* for it and none of those the route looks for first
TimeoutLike(a) ==
  /\ AskedToStore(a) /\ a.outcome \in UploadFaults
  /\ StorageError(a.outcome).includes \cap {"timeout", "timed out", "503"} # {}
  /\ StorageError(a.outcome).includes \cap {"413", "payload too large"} = {}

UnauthorizedLike(a) ==
  /\ AskedToStore(a) /\ a.outcome \in UploadFaults
  /\ StorageError(a.outcome).includes \cap {"unauthorized", "401"} # {}
  /\ StorageError(a.outcome).includes \cap {"413", "payload too large", "timeout", "timed out"} = {}

\* no file above 10 MiB reaches storage, and with the credentials set such a
\* request is answered 413; failures carry a message and a listed status; a
\* missing file gives 400
SizeAndStatusRules(a) ==
  /\ AskedToStore(a) => \A c \in 1..Len(a.calls) : a.calls[c].size <= 10 * 1024 * 1024
  /\ (a.req.parses /\ a.req.file = "large") =>
       /\ ~AskedToStore(a)
       /\ credentialsSet => a.resp.status = 413 /\ a.resp.message # ""
  /\ a.resp.status # 201 =>
       a.resp.message # "" /\ a.resp.status \in {400, 401, 413, 500, 503}
  /\ (a.req.parses /\ a.req.file = "none") => a.resp.status = 400

\* C29: the upload entry point never stores a file larger than 10 MiB and
\* answers it with 413 before any storage call; every failure response has a
\* message and a status in {400, 401, 413, 500, 503}; a missing file gives
\* 400, a timeout-like storage error 503, an unauthorized storage error 401.
C29_UploadFailuresAreClassified ==
  \A a \in UploadAnswers :
    /\ SizeAndStatusRules(a)
    /\ TimeoutLike(a) => a.resp.status = 503
    /\ UnauthorizedLike(a) => a.resp.status = 401

\* the part of C29 that holds: size limit, messages, statuses, and the
\* classification of storage errors that are Error instances
C29_ErrorInstancesAreClassified ==
  \A a \in UploadAnswers :
    /\ SizeAndStatusRules(a)
    /\ (TimeoutLike(a) /\ StorageError(a.outcome).instance) => a.resp.status = 503
    /\ (UnauthorizedLike(a) /\ StorageError(a.outcome).instance) => a.resp.status = 401

\* a file of exactly 10 MiB was stored, a larger one was answered 413, and
\* an Error that timed out was answered 503
C29_ErrorInstancesReached ==
  /\ \E a \in UploadAnswers : a.req.parses /\ a.req.file = "large" /\ a.resp.status = 413
  /\ \E a \in UploadAnswers : TimeoutLike(a) /\ a.resp.status = 503

\* ------------------------------------------------- repeating the completion
\* Runs in which the completion button is clicked once more after the clicks
\* of Spec: the button stays rendered and enabled while isAllUploadsComplete
\* holds.
MaxRepeats == 1

completeOnClickAgain == CompleteClick(MaxClicks + MaxRepeats)

RepeatNext == Next \/ completeOnClickAgain

RepeatSpec == Init /\ [][RepeatNext]_vars

\* the step sends a notification
NotificationSent == ClickOf("complete") /\ Len(webhookReqs') = Len(webhookReqs) + 1

\* a notification with the same records was sent before, and it is still
\* outstanding or has succeeded (the toast is up)
SameBatchOutstandingOrDone ==
  \E k \in 1..Len(webhookReqs) :
    /\ webhookReqs[k].files = webhookReqs'[Len(webhookReqs')].files
    /\ webhookPending # {} \/ showToast

\* C30: after a completion submission has succeeded, or while one is still
\* outstanding, repeating the completion action sends no further
\* notification for the same batch.
C30_CompletionIsNotRepeated == [][NotificationSent => ~SameBatchOutstandingOrDone]_vars

\* the same, for a repetition after the first submission has succeeded
C30_NoRepeatAfterSuccess ==
  [][NotificationSent => ~(showToast /\ Len(webhookReqs) > 0)]_vars

====
